---- MODULE Spec2Model ----
(***************************************************************************)
(* NPC movement decision engine and per-NPC memory store.                  *)
(*                                                                         *)
(* Coordinates are floats in the program.  The model keeps every           *)
(* coordinate DOUBLED (a model value v stands for the float v/2), so that  *)
(* the half-buffer clamp of the waiting spot stays on the integer grid.    *)
(* Distances are compared through their squares.                           *)
(***************************************************************************)
EXTENDS Integers, Sequences, FiniteSets, TLC

(***************************************************************************)
(* Configuration (app/core/config.py), in game units / seconds.            *)
(***************************************************************************)
MAX_LOCATIONS_IN_MEMORY == 20
VISIT_THRESHOLD_DISTANCE == 5
MAX_SEARCH_DISTANCE_FOR_NEW_POINT == 100
MIN_SEARCH_DISTANCE_FOR_NEW_POINT == 10
REVISIT_INTERVAL_SECONDS == 120
SCENE_BOUNDARY_BUFFER == 1
num_random_points == 10

(***************************************************************************)
(* Bounds of the model.                                                    *)
(***************************************************************************)
MaxTasks == 2
MaxCalls == 3

Tasks == 1..MaxTasks
NPCs == {"npc_a", "npc_b"}

None == [none |-> TRUE]
\* None of an Optional[str]
NoneStr == ""

(***************************************************************************)
(* Spatial utilities.                                                      *)
(***************************************************************************)
\* the point (x, y) of the game world, held doubled
Position(x, y) == [x |-> 2 * x, y |-> 2 * y]

Min2(a, b) == IF a < b THEN a ELSE b
Max2(a, b) == IF a > b THEN a ELSE b

\* 4 * distance^2 of two doubled points
DistSq(p, q) == (p.x - q.x) * (p.x - q.x) + (p.y - q.y) * (p.y - q.y)

\* distance(p, q) <  num/den game units
DistLt(p, q, num, den) == DistSq(p, q) * den * den < 4 * num * num
\* distance(p, q) <= num/den game units
DistLe(p, q, num, den) == DistSq(p, q) * den * den <= 4 * num * num

SceneBoundaryInfo(minx, maxx, miny, maxy) ==
  [min_x |-> 2 * minx, max_x |-> 2 * maxx, min_y |-> 2 * miny, max_y |-> 2 * maxy]

InBounds(p, b) ==
  /\ b.min_x <= p.x /\ p.x <= b.max_x
  /\ b.min_y <= p.y /\ p.y <= b.max_y

\* variant: the value is cut at the boundary and then moved inward by the buffer
ClampAxisStepsInward(v, lo, hi, buf) == Max2(lo, Min2(v, hi) - buf)

\* variant: the value is cut at the boundary itself
ClampAxisIgnoringBuffer(v, lo, hi, buf) == Max2(lo, Min2(v, hi))

\* one axis of clamp_position_to_bounds; buf is the doubled buffer
ClampAxis(v, lo, hi, buf) ==
  LET effective_min == Min2(lo + buf, IF hi > lo + 2 * buf THEN hi - buf ELSE lo + buf)
      effective_max == Max2(hi - buf, IF lo < hi - 2 * buf THEN lo + buf ELSE hi - buf)
      final_min == Min2(effective_min, effective_max)
      final_max == Max2(effective_min, effective_max)
  IN  Max2(final_min, Min2(v, final_max))

clamp_position_to_bounds(p, bounds, buf) ==
  [x |-> ClampAxis(p.x, bounds.min_x, bounds.max_x, buf),
   y |-> ClampAxis(p.y, bounds.min_y, bounds.max_y, buf)]

(***************************************************************************)
(* Schemas (app/core/schemas.py).                                          *)
(***************************************************************************)
\* obj.attr exists (reading a missing attribute raises AttributeError)
HasAttr(obj, attr) == attr \in DOMAIN obj

\* a GameTime object; its current_timestamp is a datetime
GameTime(t) == [current_timestamp |-> t, time_of_day |-> "day"]
\* a bare datetime object (it has no attribute current_timestamp)
datetime(t) == [timestamp |-> t]

VisitedLocationEntry(p, t) == [x |-> p.x, y |-> p.y, timestamp_visited |-> t]

NPCEmotionalState(emotion, intensity, reason) ==
  [primary_emotion |-> emotion, intensity |-> intensity, reason_for_last_change |-> reason]

\* variant: the synthesized record leaves the name to the schema
NPCMemoryFileUnnamed(npc_id) ==
  [npc_id |-> npc_id,
   name |-> "",
   last_known_game_time |-> None,
   last_known_position |-> None,
   current_emotional_state |-> NPCEmotionalState("neutral", 5, None),
   short_term_location_history |-> << >>]

\* the record _load_memory_from_file synthesizes: name defaults to npc_id,
\* every other field takes its schema default
NPCMemoryFile(npc_id) ==
  [npc_id |-> npc_id,
   name |-> npc_id,
   last_known_game_time |-> None,
   last_known_position |-> None,
   current_emotional_state |-> NPCEmotionalState("neutral", 5, None),
   short_term_location_history |-> << >>]

(***************************************************************************)
(* Durable storage: the content of <npc_id>.json.                          *)
(*   absent    no file                                                     *)
(*   empty     a file of size 0 (also: truncated by open(mode='w'))        *)
(*   corrupt   a file whose content is no JSON of an NPCMemoryFile         *)
(*   json      a file holding the dump of a record                         *)
(***************************************************************************)
FileAbsent == [st |-> "absent"]
FileEmpty == [st |-> "empty"]
FileCorrupt == [st |-> "corrupt"]
\* JSON values: null, and the ISO 8601 text of a datetime
JsonNull == [null |-> TRUE]
isoformat(t) == [iso |-> t]
fromisoformat(text) == text.iso

\* model_dump_json: every field of the record is written; None becomes null,
\* a datetime its ISO 8601 text, a model an object, a list an array
model_dump_json(rec) ==
  [st |-> "json",
   data |->
     [npc_id |-> rec.npc_id,
      name |-> rec.name,
      last_known_game_time |->
        IF rec.last_known_game_time = None THEN JsonNull
        ELSE [current_timestamp |-> isoformat(rec.last_known_game_time.current_timestamp),
              time_of_day |-> rec.last_known_game_time.time_of_day],
      last_known_position |->
        IF rec.last_known_position = None THEN JsonNull
        ELSE [x |-> rec.last_known_position.x, y |-> rec.last_known_position.y],
      current_emotional_state |->
        [primary_emotion |-> rec.current_emotional_state.primary_emotion,
         intensity |-> rec.current_emotional_state.intensity,
         reason_for_last_change |->
           IF rec.current_emotional_state.reason_for_last_change = None THEN JsonNull
           ELSE rec.current_emotional_state.reason_for_last_change],
      short_term_location_history |->
        [i \in 1..Len(rec.short_term_location_history) |->
           [x |-> rec.short_term_location_history[i].x,
            y |-> rec.short_term_location_history[i].y,
            timestamp_visited |->
              isoformat(rec.short_term_location_history[i].timestamp_visited)]]]]

\* variant: the location history is not read back
model_load_json_without_history(file) ==
  LET data == file.data
  IN  [npc_id |-> data.npc_id,
       name |-> data.name,
       last_known_game_time |->
         IF data.last_known_game_time = JsonNull THEN None
         ELSE [current_timestamp |->
                 fromisoformat(data.last_known_game_time.current_timestamp),
               time_of_day |-> data.last_known_game_time.time_of_day],
       last_known_position |->
         IF data.last_known_position = JsonNull THEN None
         ELSE [x |-> data.last_known_position.x, y |-> data.last_known_position.y],
       current_emotional_state |->
         NPCEmotionalState(data.current_emotional_state.primary_emotion,
                           data.current_emotional_state.intensity,
                           IF data.current_emotional_state.reason_for_last_change = JsonNull
                           THEN None
                           ELSE data.current_emotional_state.reason_for_last_change),
       short_term_location_history |-> << >>]

\* json.loads + NPCMemoryFile(**data): every field is validated and read
\* back; null becomes None, an ISO 8601 text a datetime
model_load_json(file) ==
  LET data == file.data
  IN  [npc_id |-> data.npc_id,
       name |-> data.name,
       last_known_game_time |->
         IF data.last_known_game_time = JsonNull THEN None
         ELSE [current_timestamp |->
                 fromisoformat(data.last_known_game_time.current_timestamp),
               time_of_day |-> data.last_known_game_time.time_of_day],
       last_known_position |->
         IF data.last_known_position = JsonNull THEN None
         ELSE [x |-> data.last_known_position.x, y |-> data.last_known_position.y],
       current_emotional_state |->
         NPCEmotionalState(data.current_emotional_state.primary_emotion,
                           data.current_emotional_state.intensity,
                           IF data.current_emotional_state.reason_for_last_change = JsonNull
                           THEN None
                           ELSE data.current_emotional_state.reason_for_last_change),
       short_term_location_history |->
         [i \in 1..Len(data.short_term_location_history) |->
            VisitedLocationEntry(data.short_term_location_history[i],
                                 fromisoformat(data.short_term_location_history[i].timestamp_visited))]]

(***************************************************************************)
(* NPCMemoryService: pure parts.                                           *)
(***************************************************************************)
\* memory.short_term_location_history[-MAX_LOCATIONS_IN_MEMORY:]
LastN(s, n) == IF Len(s) <= n THEN s ELSE SubSeq(s, Len(s) - n + 1, Len(s))

\* variant: the history is cut at its end, so the oldest entries are kept
add_visited_location_keeps_oldest(rec, p, t) ==
  [rec EXCEPT !.short_term_location_history =
     SubSeq(Append(@, VisitedLocationEntry(p, t)), 1,
            Min2(Len(@) + 1, MAX_LOCATIONS_IN_MEMORY))]

\* variant: the visit is not recorded
add_visited_location_skipped(rec, p, t) == rec

add_visited_location(rec, p, t) ==
  [rec EXCEPT !.short_term_location_history =
     LastN(Append(@, VisitedLocationEntry(p, t)), MAX_LOCATIONS_IN_MEMORY)]

\* max_length of NPCEmotionalState.reason_for_last_change
REASON_MAX_LENGTH == 200

update_emotional_state(rec, emotion, intensity, reason) ==
  [rec EXCEPT !.current_emotional_state = NPCEmotionalState(emotion, intensity, reason)]

\* has_been_visited_recently(x, y, current_game_time): the loop body reads
\* current_game_time.current_timestamp, which only a GameTime object has.
\* Result: TRUE, FALSE, or "AttributeError" when the body runs on an
\* argument without that attribute.
has_been_visited_recently(rec, p, current_game_time) ==
  LET hist == rec.short_term_location_history
      Recent(i) == /\ DistLt([x |-> hist[i].x, y |-> hist[i].y], p, VISIT_THRESHOLD_DISTANCE, 1)
                   /\ current_game_time.current_timestamp - hist[i].timestamp_visited
                        < REVISIT_INTERVAL_SECONDS
  IN  IF hist = << >> THEN [raised |-> FALSE, value |-> FALSE]
      ELSE IF ~HasAttr(current_game_time, "current_timestamp")
           THEN [raised |-> TRUE, value |-> FALSE]
           ELSE [raised |-> FALSE, value |-> \E i \in 1..Len(hist) : Recent(i)]

(***************************************************************************)
(* LLM text.  A text is modelled by what the parser can find in it:        *)
(*   form     "empty"    empty or whitespace only                          *)
(*            "yaml"     yaml.safe_load yields a mapping                   *)
(*            "other"    anything else (prose, a bracketed error message,  *)
(*                       a truncated fragment): the regex tier runs        *)
(*   flags    the priority_analysis keys answered Yes                      *)
(*   reasoning, chosen_action, target_coordinates, resulting_emotion_tag:  *)
(*            the value found for the key, None when the key is missing    *)
(***************************************************************************)
FlagNames == {"dialogue_driven", "schedule_driven", "emotion_driven", "memory_driven",
              "social_interaction_considered", "access_rules_consideration",
              "exploration_driven"}

Text(form, flags, reasoning, action, coords, emotion) ==
  [form |-> form, flags |-> flags, reasoning |-> reasoning, chosen_action |-> action,
   target_coordinates |-> coords, resulting_emotion_tag |-> emotion]

\* the text of a coordinate value: "x=1, y=2" (kv), "(1, 2)" (tuple),
\* "{'x': 1, 'y': 2}" (json), or text without two numbers (junk)
CoordText(fmt, x, y) == [fmt |-> fmt, x |-> x, y |-> y]

parse_coordinates_from_text(text_input) ==
  IF text_input = None THEN None
  ELSE IF text_input.fmt \in {"kv", "tuple", "json"}
       THEN Position(text_input.x, text_input.y)
       ELSE None

DefaultReasoning == "LLM did not provide clear reasoning or response was unparsable."
\* chosen_action texts
ActionText(s) == [text |-> s, p |-> None]
DefaultAction == ActionText("No specific action determined by LLM.")

DefaultParsedDecision ==
  [priority_analysis |-> [f \in FlagNames |-> FALSE],
   reasoning |-> DefaultReasoning,
   chosen_action |-> DefaultAction,
   target_coordinates |-> None,
   resulting_emotion_tag |-> "no_change"]

OrDefault(v, d) == IF v = None THEN d ELSE v
StrOrDefault(v, d) == IF v = NoneStr THEN d ELSE v

\* _parse_structured_llm_movement_output
parse_structured_llm_movement_output(text) ==
  IF text.form = "empty" THEN DefaultParsedDecision
  ELSE [priority_analysis |-> [f \in FlagNames |-> f \in text.flags],
        reasoning |-> StrOrDefault(text.reasoning, DefaultReasoning),
        chosen_action |-> OrDefault(text.chosen_action, DefaultAction),
        target_coordinates |-> text.target_coordinates,
        resulting_emotion_tag |-> StrOrDefault(text.resulting_emotion_tag, "no_change")]

(***************************************************************************)
(* Landmarks of a request.  A status note is modelled by its tag and the   *)
(* NPC id it mentions (NoneStr when it mentions nobody).                      *)
(***************************************************************************)
StatusNote(tag, who) == [tag |-> tag, who |-> who]

LandmarkContextInfo(name, pos, type, owner, notes) ==
  [landmark_name |-> name, position |-> pos, landmark_type_tag |-> type,
   owner_id |-> owner, current_status_notes |-> notes]

\* any("occupancy_occupied" in note and npc_id not in note for note in notes)
OccupiedByOther(lm, npc_id) ==
  \E n \in lm.current_status_notes : n.tag = "occupancy_occupied" /\ n.who # npc_id

(***************************************************************************)
(* Fallback exploration planner.                                           *)
(***************************************************************************)
Origin == [x |-> 0, y |-> 0]

\* offsets of the random rays the model draws from
RayOffsets == {Position(7, 0), Position(30, 0 - 40)}

\* random.uniform(0.7 * MIN, 0.5 * MAX) at a random angle
RayPoints(pos) ==
  {[x |-> pos.x + o.x, y |-> pos.y + o.y] :
     o \in {r \in RayOffsets :
              /\ ~DistLt(Origin, r, 7 * MIN_SEARCH_DISTANCE_FOR_NEW_POINT, 10)
              /\ DistLe(Origin, r, 5 * MAX_SEARCH_DISTANCE_FOR_NEW_POINT, 10)}}

\* random.uniform(a, b): any value between a and b, whichever is larger
Uniform(a, b) == Min2(a, b)..Max2(a, b)

LandmarkAccessible(lm, npc_id) ==
  IF lm.landmark_type_tag = "bathroom"
  THEN ~OccupiedByOther(lm, npc_id)
  ELSE IF lm.landmark_type_tag = "bedroom" /\ lm.owner_id # NoneStr /\ lm.owner_id # npc_id
       THEN ~(\E n \in lm.current_status_notes : n.tag = "owner_presence_absent")
       ELSE TRUE

LandmarkBaseScore(lm, npc_id) ==
  50 + (IF lm.landmark_type_tag \in {"living_room", "kitchen", "dining_room"} THEN 20
        ELSE IF lm.landmark_type_tag = "bedroom" /\ lm.owner_id = npc_id THEN 15
        ELSE 0)

\* the potential targets: accessible landmarks in range, and the random points
PotentialTargets(npc_id, pos, landmarks, rays) ==
  {[p |-> landmarks[i].position, base |-> LandmarkBaseScore(landmarks[i], npc_id)] :
     i \in {j \in 1..Len(landmarks) :
              /\ LandmarkAccessible(landmarks[j], npc_id)
              /\ ~DistLt(pos, landmarks[j].position, 5 * MIN_SEARCH_DISTANCE_FOR_NEW_POINT, 10)
              /\ DistLe(pos, landmarks[j].position, 7 * MAX_SEARCH_DISTANCE_FOR_NEW_POINT, 10)}}
  \cup {[p |-> r, base |-> 30] : r \in rays}

\* the outcomes of _find_fallback_exploration_target: a point, or an exception
\* raised by the revisit check.  time_arg is what the caller passes as
\* current_game_time to has_been_visited_recently.
find_fallback_exploration_target(npc_id, pos, landmarks, bounds, rec, time_arg, entities) ==
  LET buf == 2 * SCENE_BOUNDARY_BUFFER
      Emergency ==
        {[raised |-> FALSE, src |-> "emergency", p |-> [x |-> ex, y |-> ey]] :
           ex \in Uniform(bounds.min_x + buf, bounds.max_x - buf),
           ey \in Uniform(bounds.min_y + buf, bounds.max_y - buf)}
      Outcome(rays) ==
        LET clamped == {[p |-> clamp_position_to_bounds(c.p, bounds, buf), base |-> c.base] :
                          c \in PotentialTargets(npc_id, pos, landmarks, rays)}
            kept == {c \in clamped :
                       ~DistLt(pos, c.p, 3 * MIN_SEARCH_DISTANCE_FOR_NEW_POINT, 10)}
            visited(c) == has_been_visited_recently(rec, c.p, time_arg)
            near(c) == Cardinality({i \in 1..Len(entities) : DistLt(c.p, entities[i], 2, 1)})
            score(c) == c.base + (IF visited(c).value THEN 0 - 300 ELSE 100) - 25 * near(c)
        IN  IF kept = {} THEN Emergency
            ELSE IF \E c \in kept : visited(c).raised
                 THEN {[raised |-> TRUE, src |-> "AttributeError", p |-> None]}
                 ELSE {[raised |-> FALSE, src |-> "candidate", p |-> c.p] :
                         c \in {d \in kept : \A o \in kept : score(d) + 15 >= score(o) - 15}}
  IN  UNION {Outcome(rays) :
               rays \in {r \in SUBSET RayPoints(pos) :
                           r # {} /\ Cardinality(r) <= num_random_points}}

(***************************************************************************)
(* Movement decision engine: the part of decide_npc_movement that runs     *)
(* between the return of the LLM call and the call of save_memory_to_file  *)
(* (no suspension point lies in between).                                  *)
(***************************************************************************)
\* f"Fallback exploration towards ({fx:.1f}, {fy:.1f})."
FallbackAction(p) == [text |-> "Fallback exploration towards", p |-> p]
\* f"Heading to wait near {landmark_name} (it is occupied)."
WaitAction(name) == [text |-> "Heading to wait near", p |-> [landmark_name |-> name]]

MentionsBathroom(action) == action.text \in {"use the bathroom", "go to the toilet"}

\* the replies of generate_chat_completion
ReplyRaise == [kind |-> "ConnectionError", text |-> None]
ReplyError(text) == [kind |-> "error", text |-> text]
ReplyMessage(text) == [kind |-> "message", text |-> text]

\* lines 329-371: the raw text is the error message or the message content;
\* an exception of the call leaves the default parse
LLMPhase(reply) ==
  LET parsed == IF reply.kind = "ConnectionError"
                THEN DefaultParsedDecision
                ELSE parse_structured_llm_movement_output(reply.text)
  IN  [parsed |-> parsed,
       llm_chosen_target_pos |-> IF reply.kind = "ConnectionError" THEN None
                                 ELSE parse_coordinates_from_text(parsed.target_coordinates)]

\* _get_landmark_by_name_or_pos with a Position: the closest landmark, if it
\* is nearer than the proximity threshold 2.0
LandmarkByPos(target, landmarks) ==
  LET near == {i \in 1..Len(landmarks) :
                 /\ DistLt(landmarks[i].position, target, 2, 1)
                 /\ \A j \in 1..Len(landmarks) :
                      DistSq(landmarks[i].position, target) <= DistSq(landmarks[j].position, target)}
  IN  IF near = {} THEN None
      ELSE landmarks[CHOOSE i \in near : \A j \in near : i <= j]

\* _get_landmark_by_name_or_pos with the search term "bathroom"
LandmarkByName(landmarks) ==
  LET hit == {i \in 1..Len(landmarks) :
                \/ landmarks[i].landmark_name = "bathroom"
                \/ landmarks[i].landmark_type_tag = "bathroom"}
  IN  IF hit = {} THEN None
      ELSE landmarks[CHOOSE i \in hit : \A j \in hit : i <= j]

\* _extract_entrance_positions_from_landmark reads landmark.entrance_positions
extract_entrance_positions_from_landmark(lm) ==
  IF HasAttr(lm, "entrance_positions")
  THEN [raised |-> FALSE, value |-> lm.entrance_positions]
  ELSE [raised |-> TRUE, value |-> << >>]

\* entrance_positions.sort(key=distance to the current position)[0]
ClosestTo(pos, positions) ==
  positions[CHOOSE i \in 1..Len(positions) :
              \A j \in 1..Len(positions) :
                \/ DistSq(pos, positions[i]) < DistSq(pos, positions[j])
                \/ DistSq(pos, positions[i]) = DistSq(pos, positions[j]) /\ i <= j]

\* build_npc_movement_decision_prompt: _format_landmarks_for_prompt reads
\* landmark.entrance_positions of the listed landmarks
build_prompt_raises(landmarks) ==
  \E i \in 1..Len(landmarks) : ~HasAttr(landmarks[i], "entrance_positions")

NoChangeTags == {"no_change", "same", "n/a", "none", "neutral"}

\* lines 455-487: the emotion the decision sets, None when it sets none
NewEmotion(tag, current) ==
  IF tag \notin NoChangeTags /\ tag # current THEN [emotion |-> tag] ELSE None

\* line 481: f"Movement Decision: {chosen_action}"
MovementDecisionReason(action) == [prefix |-> "Movement Decision: ", action |-> action]

\* a chosen_action of 190 characters
LongAction == ActionText("walk past every shelf of the library (190 characters)")

\* len() of a reason: the prefix has 19 characters, LongAction 190 and every
\* other chosen_action of the model fewer than 100
ReasonLength(reason) == 19 + (IF reason.action = LongAction THEN 190 ELSE 99)

\* NPCEmotionalState(...) in update_emotional_state raises ValidationError
\* when reason_for_last_change is longer than max_length
emotional_state_rejected(reason) == ReasonLength(reason) > REASON_MAX_LENGTH

\* lines 373-487 for a request req, the cached record rec (already stamped
\* with the last-known values) and an LLM reply.  Each outcome is either an
\* exception or the mutated record with the fields of the response.
DecideOutcomes(req, rec, reply) ==
  LET llm == LLMPhase(reply)
      parsed == llm.parsed
      target == llm.llm_chosen_target_pos
      buf == 2 * SCENE_BOUNDARY_BUFFER
      Raised(exc) == [raised |-> TRUE, exc |-> exc, rec |-> rec, response |-> None,
                      llm_failed |-> reply.kind # "message"]
      Finish(final, action, override, drivers, path) ==
        LET rec1 == add_visited_location(rec, final, req.time)
            emo == NewEmotion(parsed.resulting_emotion_tag,
                              rec.current_emotional_state.primary_emotion)
            reason == MovementDecisionReason(action)
            rec2 == IF emo = None THEN rec1
                    ELSE update_emotional_state(rec1, emo.emotion,
                           rec.current_emotional_state.intensity, reason)
        IN  IF emo # None /\ emotional_state_rejected(reason)
            THEN [raised |-> TRUE, exc |-> "ValidationError", rec |-> rec1,
                  response |-> None, llm_failed |-> reply.kind # "message"]
            ELSE [raised |-> FALSE, exc |-> "", rec |-> rec2,
                  llm_failed |-> reply.kind # "message",
                  response |->
                    [npc_id |-> req.npc_id,
                     llm_full_reasoning_text |-> parsed.reasoning,
                     chosen_action_summary |-> IF override = None THEN action ELSE override,
                     target_destination |-> final,
                     primary_decision_drivers |-> drivers,
                     updated_emotional_state_snapshot |-> rec2.current_emotional_state,
                     path |-> path]]
  IN  IF target # None
      THEN LET byPos == LandmarkByPos(target, req.landmarks)
               lm == IF byPos = None /\ MentionsBathroom(parsed.chosen_action)
                     THEN LandmarkByName(req.landmarks) ELSE byPos
               clamped == clamp_position_to_bounds(target, req.bounds, buf)
           IN  IF lm # None /\ lm.landmark_type_tag = "bathroom" /\ OccupiedByOther(lm, req.npc_id)
               THEN LET ent == extract_entrance_positions_from_landmark(lm)
                    IN  IF ent.raised THEN {Raised("AttributeError")}
                        ELSE IF ent.value # << >>
                             THEN {Finish(clamp_position_to_bounds(
                                            ClosestTo(req.pos, ent.value), req.bounds,
                                            SCENE_BOUNDARY_BUFFER),
                                          parsed.chosen_action, WaitAction(lm.landmark_name),
                                          parsed.priority_analysis, "redirect")}
                             ELSE {Finish(clamped, parsed.chosen_action, None,
                                          parsed.priority_analysis, "llm")}
               ELSE {Finish(clamped, parsed.chosen_action, None,
                            parsed.priority_analysis, "llm")}
      ELSE {IF f.raised THEN Raised(f.src)
            ELSE Finish(f.p, FallbackAction(f.p), None,
                        [parsed.priority_analysis EXCEPT !["exploration_driven"] = TRUE],
                        "fallback") :
              f \in find_fallback_exploration_target(req.npc_id, req.pos, req.landmarks,
                      req.bounds, rec, datetime(req.time), req.entities)}

(***************************************************************************)
(* The running service.                                                    *)
(*                                                                         *)
(* Every request instantiates its own NPCMemoryService (routers), so a     *)
(* store handle is identified with the task that created it.  A task is    *)
(* one HTTP request: "decide" (POST /npc/think), "clear" (DELETE memory)   *)
(* or "view" (GET memory).  The save-all sweep is one more coroutine; the  *)
(* saves it gathers are the savers MaxTasks + NpcIndex(n).                 *)
(*                                                                         *)
(* A step of the model is what one coroutine runs between two suspension   *)
(* points (a lock it has to wait for, the LLM call, file I/O).  Requests    *)
(* are numbered in the order of their arrival; request t carries the game  *)
(* time RequestTime(t).                                                    *)
(***************************************************************************)
VARIABLES
  disk,        \* npc_id -> content of its memory file
  file_lock,   \* _NPC_FILE_LOCKS: lock key -> the saver/task holding it, 0 when free
  registry,    \* _INSTANTIATED_MEMORY_SERVICES: npc_id -> handle, 0 when no entry
  handle,      \* handle -> [npc_id, cache, dirty, load_lock, read_failed]
  task,        \* task -> [kind, pc, req, response, llm_failed, calls]
  saver,       \* saver -> [pc, h, n, snap, force]
  sweep,       \* save_all_dirty_npc_memories: [pc, quiet, ok]; quiet: no request
               \* has taken a step since the sweep started; ok: no gathered save
               \* has failed
  emitted      \* what the last step handed to the caller of a request

vars == <<disk, file_lock, registry, handle, task, saver, sweep, emitted>>

\* variant: one lock shared by the files of all NPCs
one_lock_for_all_npcs(npc_id) == "npc_a"

\* _get_npc_file_lock: the key of the lock of an NPC in _NPC_FILE_LOCKS
get_npc_file_lock(npc_id) == npc_id

NpcIndex(n) == IF n = "npc_a" THEN 1 ELSE 2
SweepSaver(n) == MaxTasks + NpcIndex(n)
SweepSavers == {SweepSaver(n) : n \in NPCs}
Savers == Tasks \cup SweepSavers

\* the request of task t: body of POST /npc/think
RequestTime(t) == 100 * t
BigScene == SceneBoundaryInfo(0 - 60, 60, 0 - 60, 60)
WC == LandmarkContextInfo("WC", Position(5, 5), "bathroom", NoneStr,
                          {StatusNote("occupancy_occupied", "npc_b")})
LandmarkLists == {<< >>, <<WC>>}

NPCMovementRequest(n, t, lms) ==
  [npc_id |-> n, time |-> RequestTime(t), pos |-> Position(0, 0),
   bounds |-> BigScene, landmarks |-> lms, entities |-> << >>]

NoRequest == [npc_id |-> "", time |-> 0, pos |-> Origin,
              bounds |-> BigScene, landmarks |-> << >>, entities |-> << >>]

\* read_failed records that the load of the handle took the branch of lines
\* 99-101 (the file could not be read)
NoHandle == [npc_id |-> "", cache |-> None, dirty |-> FALSE, load_lock |-> FALSE,
             read_failed |-> FALSE]
NoSaver == [pc |-> "none", h |-> 0, n |-> "", snap |-> None, force |-> FALSE]
NoTask == [kind |-> "idle", pc |-> "idle", req |-> NoRequest, response |-> None,
           llm_failed |-> FALSE, calls |-> 0]

\* what a step hands to the caller of a request: kind is "returned" (a
\* MovementDecision), "raised" (an exception left decide_npc_movement),
\* "viewed", "cleared" or "clear_failed" (with the NPC and whether its file
\* existed), "mutated", "saved" or "save_skipped" for a call of a client of the
\* store; "none" when the step ends no request
Outcome(t, kind, exc, response, llm_failed, save_failed) ==
  [task |-> t, kind |-> kind, exc |-> exc, response |-> response,
   llm_failed |-> llm_failed, save_failed |-> save_failed]
NoOutcome == Outcome(0, "none", "", None, FALSE, FALSE)

\* the texts the LLM (or the error path of its client) may produce
TextEmpty == Text("empty", {}, NoneStr, None, None, NoneStr)
TextDecision ==
  Text("yaml", {"schedule_driven"}, "go to the sofa", ActionText("walk to the sofa"),
       CoordText("kv", 3, 4), "happy")
TextFarDecision ==
  Text("yaml", {}, "leave", ActionText("walk away"), CoordText("tuple", 70, 0 - 3), NoneStr)
\* "[Ollama API Error: connection refused]"
TextErrorPlain == Text("other", {}, NoneStr, None, None, NoneStr)
\* "[Ollama API Error: model 'target_coordinates: 3,4' not found]"
TextErrorCoords == Text("other", {}, NoneStr, None, CoordText("tuple", 3, 4), NoneStr)

Replies ==
  {ReplyRaise, ReplyError(TextErrorPlain), ReplyError(TextErrorCoords),
   ReplyMessage(TextEmpty), ReplyMessage(TextDecision), ReplyMessage(TextFarDecision)}

Init ==
  /\ disk = [n \in NPCs |-> FileAbsent]
  /\ file_lock = [n \in NPCs |-> 0]
  /\ registry = [n \in NPCs |-> 0]
  /\ handle = [t \in Tasks |-> NoHandle]
  /\ task = [t \in Tasks |-> NoTask]
  /\ saver = [s \in Savers |-> NoSaver]
  /\ sweep = [pc |-> "idle", quiet |-> FALSE, ok |-> TRUE]
  /\ emitted = NoOutcome

(***************************************************************************)
(* Steps of a request.  An effect is the new value of everything a step of *)
(* task t on NPC n may change.                                             *)
(***************************************************************************)
Eff(dk, lock, reg, h, tk, sv, out) ==
  [dk |-> dk, lock |-> lock, reg |-> reg, h |-> h, tk |-> tk, sv |-> sv, out |-> out]

\* a handle object lives while its request runs, while the registry or a
\* running save refers to it; a handle with unsaved changes is kept as the
\* record of those changes
Collect(hs, reg, tks, svs) ==
  [u \in Tasks |->
     IF /\ tks[u].pc = "done"
        /\ ~hs[u].dirty
        /\ \A n \in NPCs : reg[n] # u
        /\ \A s \in Savers : svs[s].pc \in {"none", "done"} \/ svs[s].h # u
     THEN NoHandle ELSE hs[u]]

Apply(t, n, e) ==
  /\ disk' = [disk EXCEPT ![n] = e.dk]
  /\ file_lock' = [file_lock EXCEPT ![get_npc_file_lock(n)] = e.lock]
  /\ registry' = [registry EXCEPT ![n] = e.reg]
  /\ task' = [task EXCEPT ![t] = e.tk]
  /\ saver' = [saver EXCEPT ![t] = e.sv]
  /\ handle' = Collect([handle EXCEPT ![t] = e.h], registry', task', saver')
  /\ emitted' = e.out
  /\ sweep' = [sweep EXCEPT !.quiet = FALSE]

\* the end of a request; a client of the store API gets its call answered
Done(tk) ==
  IF tk.kind = "client" THEN [tk EXCEPT !.pc = "ready", !.calls = @ + 1]
  ELSE [NoTask EXCEPT !.pc = "done"]

\* _ensure_cache_loaded lines 112-117 once _load_memory_from_file returned
\* rec (the file lock is released), then the caller up to its next
\* suspension: the view endpoint returns the record; decide_npc_movement
\* stamps the last-known values, builds the prompt and calls the LLM.
Loaded(t, n, hd, tk, rec, read_failed) ==
  LET stamped == IF tk.kind = "decide"
                 THEN [rec EXCEPT !.last_known_position = tk.req.pos,
                                  !.last_known_game_time = GameTime(tk.req.time)]
                 ELSE rec
      h1 == [hd EXCEPT !.cache = stamped, !.dirty = FALSE, !.load_lock = FALSE,
                       !.read_failed = read_failed]
  IN  IF tk.kind \in {"view", "client"}
      THEN Eff(disk[n], 0, t, h1, Done(tk), saver[t],
               Outcome(t, "viewed", "", rec, FALSE, FALSE))
      ELSE IF build_prompt_raises(tk.req.landmarks)
           THEN Eff(disk[n], 0, t, h1, Done(tk), saver[t],
                    Outcome(t, "raised", "AttributeError", None, FALSE, FALSE))
           ELSE Eff(disk[n], 0, t, h1, [tk EXCEPT !.pc = "llm"], saver[t], NoOutcome)

\* variant: the load takes the file lock and then waits for it once more
load_memory_from_file_reacquiring(t, n, hd, tk) ==
  Eff(disk[n],
      IF file_lock[get_npc_file_lock(n)] # 0 THEN file_lock[get_npc_file_lock(n)] ELSE t,
      registry[n], hd, [tk EXCEPT !.pc = "load_wait"], saver[t], NoOutcome)

\* _load_memory_from_file up to its first suspension, entered with the load
\* lock of the handle held
load_memory_from_file(t, n, hd, tk) ==
  IF file_lock[get_npc_file_lock(n)] # 0
  THEN Eff(disk[n], file_lock[get_npc_file_lock(n)], registry[n], hd, [tk EXCEPT !.pc = "load_wait"],
           saver[t], NoOutcome)
  ELSE IF disk[n].st \in {"absent", "empty"}
       THEN Loaded(t, n, hd, tk, NPCMemoryFile(n), FALSE)
       ELSE Eff(disk[n], t, registry[n], hd, [tk EXCEPT !.pc = "reading"],
                saver[t], NoOutcome)

\* variant: a get marks the cached record dirty
get_memory_data_marking_dirty(t, n, hd, tk) ==
  IF hd.cache # None
  THEN Eff(disk[n], file_lock[get_npc_file_lock(n)], registry[n],
           [hd EXCEPT !.dirty = TRUE], Done(tk), saver[t],
           Outcome(t, "viewed", "", hd.cache, FALSE, FALSE))
  ELSE load_memory_from_file(t, n, [hd EXCEPT !.load_lock = TRUE], tk)

\* get_memory_data on a handle: _ensure_cache_loaded
get_memory_data(t, n, hd, tk) ==
  IF hd.cache # None
  THEN Eff(disk[n], file_lock[get_npc_file_lock(n)], registry[n], hd, Done(tk), saver[t],
           Outcome(t, "viewed", "", hd.cache, FALSE, FALSE))
  ELSE load_memory_from_file(t, n, [hd EXCEPT !.load_lock = TRUE], tk)

\* variant: clearing an NPC without a file reports a failure
clear_fails_on_missing_file(t, n, hd, tk) ==
  LET cleared == [hd EXCEPT !.cache = None, !.dirty = FALSE]
      Answer(kind, existed) ==
        Outcome(t, kind, "", [npc_id |-> n, existed |-> existed], FALSE, FALSE)
  IN  IF file_lock[get_npc_file_lock(n)] # 0
      THEN {Eff(disk[n], file_lock[get_npc_file_lock(n)], registry[n], hd, [tk EXCEPT !.pc = "clear_wait"],
                saver[t], NoOutcome)}
      ELSE IF disk[n].st # "absent"
           THEN {Eff(FileAbsent, 0, 0, cleared, Done(tk), saver[t], Answer("cleared", TRUE)),
                 Eff(disk[n], 0, registry[n], hd, Done(tk), saver[t],
                     Answer("clear_failed", TRUE))}
           ELSE {Eff(disk[n], 0, registry[n], hd, Done(tk), saver[t],
                     Answer("clear_failed", FALSE))}

\* clear_all_memory_data_file up to its return (unlink is synchronous); the
\* endpoint answers "cleared" for True and raises for False
clear_all_memory_data_file(t, n, hd, tk) ==
  LET cleared == [hd EXCEPT !.cache = None, !.dirty = FALSE]
      Answer(kind, existed) ==
        Outcome(t, kind, "", [npc_id |-> n, existed |-> existed], FALSE, FALSE)
  IN  IF file_lock[get_npc_file_lock(n)] # 0
      THEN {Eff(disk[n], file_lock[get_npc_file_lock(n)], registry[n], hd, [tk EXCEPT !.pc = "clear_wait"],
                saver[t], NoOutcome)}
      ELSE IF disk[n].st # "absent"
           THEN {Eff(FileAbsent, 0, 0, cleared, Done(tk), saver[t], Answer("cleared", TRUE)),
                 \* unlink raised
                 Eff(disk[n], 0, registry[n], hd, Done(tk), saver[t],
                     Answer("clear_failed", TRUE))}
           ELSE {Eff(disk[n], 0, registry[n], cleared, Done(tk), saver[t],
                     Answer("cleared", FALSE))}

\* variant: save without the dirty check of lines 135-137
save_without_dirty_check(s, h, n, hd, force_save) ==
  IF hd.cache = None
  THEN [sv |-> [NoSaver EXCEPT !.pc = "done"], lock |-> file_lock[get_npc_file_lock(n)]]
  ELSE IF file_lock[get_npc_file_lock(n)] # 0
       THEN [sv |-> [NoSaver EXCEPT !.pc = "save_wait", !.h = h, !.n = n,
                                    !.force = force_save],
             lock |-> file_lock[get_npc_file_lock(n)]]
       ELSE [sv |-> [NoSaver EXCEPT !.pc = "opening", !.h = h, !.n = n,
                                    !.force = force_save,
                                    !.snap = model_dump_json(hd.cache)],
             lock |-> s]

\* variant: save without the file lock of line 149
save_without_file_lock(s, h, n, hd, force_save) ==
  IF (~hd.dirty /\ ~force_save) \/ hd.cache = None
  THEN [sv |-> [NoSaver EXCEPT !.pc = "done"], lock |-> file_lock[get_npc_file_lock(n)]]
  ELSE [sv |-> [NoSaver EXCEPT !.pc = "opening", !.h = h, !.n = n,
                               !.force = force_save,
                               !.snap = model_dump_json(hd.cache)],
        lock |-> file_lock[get_npc_file_lock(n)]]

\* save_memory_to_file(force_save) by saver s on handle h (record hd), up to
\* its first suspension: the new saver record and the new holder of the lock
save_memory_to_file(s, h, n, hd, force_save) ==
  IF (~hd.dirty /\ ~force_save) \/ hd.cache = None
  THEN [sv |-> [NoSaver EXCEPT !.pc = "done"], lock |-> file_lock[get_npc_file_lock(n)]]
  ELSE IF file_lock[get_npc_file_lock(n)] # 0
       THEN [sv |-> [NoSaver EXCEPT !.pc = "save_wait", !.h = h, !.n = n,
                                    !.force = force_save],
             lock |-> file_lock[get_npc_file_lock(n)]]
       ELSE [sv |-> [NoSaver EXCEPT !.pc = "opening", !.h = h, !.n = n,
                                    !.force = force_save,
                                    !.snap = model_dump_json(hd.cache)],
             lock |-> s]

\* a request arrives, in the order of the game clock: the router instantiates
\* the handle and calls the service
Start(t) ==
  /\ task[t].pc = "idle"
  /\ \A u \in Tasks : u < t => task[u].pc # "idle"
  /\ \E kind \in {"decide", "view", "clear"}, n \in NPCs, lms \in LandmarkLists :
       LET hd == [NoHandle EXCEPT !.npc_id = n]
           tk == [NoTask EXCEPT !.kind = kind, !.pc = "started",
                                !.req = NPCMovementRequest(n, t, lms)]
       IN  /\ kind # "decide" => lms = << >>
           /\ IF kind = "clear"
              THEN \E e \in clear_all_memory_data_file(t, n, hd, tk) : Apply(t, n, e)
              ELSE Apply(t, n, get_memory_data(t, n, hd, tk))

\* the file lock is granted to a waiting load
LoadAcquire(t) ==
  /\ task[t].pc = "load_wait"
  /\ file_lock[get_npc_file_lock(handle[t].npc_id)] = 0
  /\ Apply(t, handle[t].npc_id,
           load_memory_from_file(t, handle[t].npc_id, handle[t], task[t]))

\* aiofiles read finished: a dump is parsed; anything else (invalid JSON, a
\* failed validation, an I/O error) yields the default record
ReadDone(t) ==
  /\ task[t].pc = "reading"
  /\ LET n == handle[t].npc_id
     IN  \E io_ok \in BOOLEAN :
           Apply(t, n, Loaded(t, n, handle[t], task[t],
                              IF io_ok /\ disk[n].st = "json"
                              THEN model_load_json(disk[n])
                              ELSE NPCMemoryFile(n),
                              ~io_ok))

\* the file lock is granted to a waiting clear
ClearAcquire(t) ==
  /\ task[t].pc = "clear_wait"
  /\ file_lock[get_npc_file_lock(handle[t].npc_id)] = 0
  /\ \E e \in clear_all_memory_data_file(t, handle[t].npc_id, handle[t], task[t]) :
       Apply(t, handle[t].npc_id, e)

\* the LLM call returns or raises; decide_npc_movement runs to the first
\* suspension of save_memory_to_file, or to its return
LLMReturn(t) ==
  /\ task[t].pc = "llm"
  /\ LET n == handle[t].npc_id
     IN  \E reply \in Replies :
         \E o \in DecideOutcomes(task[t].req, handle[t].cache, reply) :
           IF o.raised
           THEN Apply(t, n, Eff(disk[n], file_lock[get_npc_file_lock(n)], registry[n], handle[t], Done(task[t]),
                                saver[t],
                                Outcome(t, "raised", o.exc, None, o.llm_failed, FALSE)))
           ELSE LET h1 == [handle[t] EXCEPT !.cache = o.rec, !.dirty = TRUE]
                    sv == save_memory_to_file(t, t, n, h1, FALSE)
                IN  IF sv.sv.pc = "done"
                    THEN Apply(t, n, Eff(disk[n], sv.lock, registry[n], h1, Done(task[t]), NoSaver,
                                         Outcome(t, "returned", "", o.response, o.llm_failed, FALSE)))
                    ELSE Apply(t, n, Eff(disk[n], sv.lock, registry[n], h1,
                                         [task[t] EXCEPT !.pc = "saving", !.response = o.response,
                                                         !.llm_failed = o.llm_failed],
                                         sv.sv, NoOutcome))

(***************************************************************************)
(* Steps of a save (of a decision, or gathered by the sweep).              *)
(***************************************************************************)
\* save_memory_to_file returns to its caller, the handle being hd by then.  A
\* decision builds and returns its response; a gathered save just ends.
SaveReturns(s, hd, failed) ==
  /\ saver' = [saver EXCEPT ![s] = IF s \in Tasks THEN NoSaver
                                   ELSE [NoSaver EXCEPT !.pc = "done"]]
  /\ task' = IF s \in Tasks THEN [task EXCEPT ![s] = Done(@)] ELSE task
  /\ handle' = Collect([handle EXCEPT ![saver[s].h] = hd], registry, task', saver')
  /\ emitted' = IF s \in Tasks
                THEN Outcome(s, IF task[s].kind = "client" THEN "saved" ELSE "returned", "",
                             task[s].response, task[s].llm_failed, failed)
                ELSE NoOutcome
  /\ sweep' = IF s \in Tasks THEN [sweep EXCEPT !.quiet = FALSE]
              ELSE [sweep EXCEPT !.ok = @ /\ ~failed]

\* the file lock is granted to a waiting save: dump the cache, open the file
\* (a cache emptied by a clear in the meantime has no model_dump_json: the
\* AttributeError is caught at line 157 and the save ends as failed)
SaveAcquire(s) ==
  /\ saver[s].pc = "save_wait"
  /\ file_lock[get_npc_file_lock(saver[s].n)] = 0
  /\ IF handle[saver[s].h].cache = None
     THEN /\ SaveReturns(s, handle[saver[s].h], TRUE)
          /\ UNCHANGED <<disk, file_lock, registry>>
     ELSE /\ file_lock' = [file_lock EXCEPT ![get_npc_file_lock(saver[s].n)] = s]
          /\ saver' = [saver EXCEPT ![s].pc = "opening",
                                    ![s].snap = model_dump_json(handle[saver[s].h].cache)]
          /\ sweep' = [sweep EXCEPT !.quiet = IF s \in Tasks THEN FALSE ELSE @]
          /\ emitted' = NoOutcome
          /\ UNCHANGED <<disk, registry, handle, task>>

\* aiofiles.open(mode='w') finished: the file is truncated, or the open failed
OpenDone(s) ==
  /\ saver[s].pc = "opening"
  /\ UNCHANGED registry
  /\ \E io_ok \in BOOLEAN :
       IF io_ok
       THEN /\ disk' = [disk EXCEPT ![saver[s].n] = FileEmpty]
            /\ saver' = [saver EXCEPT ![s].pc = "writing"]
            /\ sweep' = [sweep EXCEPT !.quiet = IF s \in Tasks THEN FALSE ELSE @]
            /\ emitted' = NoOutcome
            /\ UNCHANGED <<file_lock, handle, task>>
       ELSE /\ file_lock' = [file_lock EXCEPT ![get_npc_file_lock(saver[s].n)] = 0]
            /\ SaveReturns(s, handle[saver[s].h], TRUE)
            /\ UNCHANGED disk

\* variant: the dirty flag is cleared before the outcome of the write is known
WriteDoneClearsDirtyFirst(s) ==
  /\ saver[s].pc = "writing"
  /\ file_lock' = [file_lock EXCEPT ![get_npc_file_lock(saver[s].n)] = 0]
  /\ UNCHANGED registry
  /\ \E io_ok \in BOOLEAN :
       IF io_ok
       THEN /\ disk' = [disk EXCEPT ![saver[s].n] = saver[s].snap]
            /\ SaveReturns(s, [handle[saver[s].h] EXCEPT !.dirty = FALSE], FALSE)
       ELSE /\ \E partial \in {FileEmpty, FileCorrupt} :
                 disk' = [disk EXCEPT ![saver[s].n] = partial]
            /\ SaveReturns(s, [handle[saver[s].h] EXCEPT !.dirty = FALSE], TRUE)

\* the write finished: the dump is on disk and the dirty flag is cleared, or
\* the write failed and left a partial file
WriteDone(s) ==
  /\ saver[s].pc = "writing"
  /\ file_lock' = [file_lock EXCEPT ![get_npc_file_lock(saver[s].n)] = 0]
  /\ UNCHANGED registry
  /\ \E io_ok \in BOOLEAN :
       IF io_ok
       THEN /\ disk' = [disk EXCEPT ![saver[s].n] = saver[s].snap]
            /\ SaveReturns(s, [handle[saver[s].h] EXCEPT !.dirty = FALSE], FALSE)
       ELSE /\ \E partial \in {FileEmpty, FileCorrupt} :
                 disk' = [disk EXCEPT ![saver[s].n] = partial]
            /\ SaveReturns(s, handle[saver[s].h], TRUE)

(***************************************************************************)
(* save_all_dirty_npc_memories.                                            *)
(***************************************************************************)
\* lines 291-302: one forced save per registered handle that is dirty
SweepStart ==
  /\ sweep.pc = "idle"
  /\ LET jobs == {n \in NPCs : registry[n] # 0 /\ handle[registry[n]].dirty}
     IN  /\ saver' = [s \in Savers |->
                        IF \E n \in jobs : s = SweepSaver(n)
                        THEN [NoSaver EXCEPT !.pc = "todo", !.n = CHOOSE n \in jobs : s = SweepSaver(n),
                                !.h = registry[CHOOSE n \in jobs : s = SweepSaver(n)]]
                        ELSE saver[s]]
         /\ sweep' = [pc |-> "running", quiet |-> TRUE, ok |-> TRUE]
  /\ emitted' = NoOutcome
  /\ UNCHANGED <<disk, file_lock, registry, handle, task>>

\* a gathered save starts running
JobStart(s) ==
  /\ s \in SweepSavers
  /\ saver[s].pc = "todo"
  /\ LET n == saver[s].n
         sv == save_memory_to_file(s, saver[s].h, n, handle[saver[s].h], TRUE)
     IN  /\ saver' = [saver EXCEPT ![s] = sv.sv]
         /\ file_lock' = [file_lock EXCEPT ![get_npc_file_lock(n)] = sv.lock]
  /\ emitted' = NoOutcome
  /\ UNCHANGED <<disk, registry, handle, task, sweep>>

\* asyncio.gather returned
SweepFinish ==
  /\ sweep.pc = "running"
  /\ \A s \in SweepSavers : saver[s].pc \in {"none", "done"}
  /\ sweep' = [sweep EXCEPT !.pc = "done"]
  /\ saver' = [s \in Savers |-> IF s \in SweepSavers THEN NoSaver ELSE saver[s]]
  /\ handle' = Collect(handle, registry, task, saver')
  /\ emitted' = NoOutcome
  /\ UNCHANGED <<disk, file_lock, registry, task>>

Next ==
  \/ \E t \in Tasks : Start(t)
  \/ \E t \in Tasks : LoadAcquire(t)
  \/ \E t \in Tasks : ReadDone(t)
  \/ \E t \in Tasks : ClearAcquire(t)
  \/ \E t \in Tasks : LLMReturn(t)
  \/ \E s \in Savers : SaveAcquire(s)
  \/ \E s \in Savers : OpenDone(s)
  \/ \E s \in Savers : WriteDone(s)
  \/ SweepStart
  \/ \E s \in SweepSavers : JobStart(s)
  \/ SweepFinish

Spec == Init /\ [][Next]_vars

(***************************************************************************)
(* The store API on its own: clients that hold a handle and call get,      *)
(* add_visited_location, save_memory_to_file and                           *)
(* clear_all_memory_data_file on it in any order.                          *)
(***************************************************************************)
StoreOps == {"get", "add_visited_location", "save", "save_forced", "clear"}

\* a client instantiates NPCMemoryService(npc_id)
ClientStart(t) ==
  /\ task[t].pc = "idle"
  /\ \A u \in Tasks : u < t => task[u].pc # "idle"
  /\ \E n \in NPCs :
       /\ task' = [task EXCEPT ![t] = [NoTask EXCEPT !.kind = "client", !.pc = "ready",
                                         !.req = NPCMovementRequest(n, t, << >>)]]
       /\ handle' = [handle EXCEPT ![t] = [NoHandle EXCEPT !.npc_id = n]]
  /\ emitted' = NoOutcome
  /\ UNCHANGED <<disk, file_lock, registry, saver, sweep>>

\* a client calls the store, up to the first suspension of the call or to its
\* return
ClientCall(t) ==
  /\ task[t].kind = "client"
  /\ task[t].pc = "ready"
  /\ task[t].calls < MaxCalls
  /\ LET n == handle[t].npc_id
         hd == handle[t]
         tk == [task[t] EXCEPT !.pc = "called"]
         Save(force_save) ==
           LET sv == save_memory_to_file(t, t, n, hd, force_save)
           IN  IF sv.sv.pc = "done"
               THEN Apply(t, n, Eff(disk[n], sv.lock, registry[n], hd, Done(tk), NoSaver,
                                    Outcome(t, "save_skipped", "", None, FALSE, FALSE)))
               ELSE Apply(t, n, Eff(disk[n], sv.lock, registry[n], hd,
                                    [tk EXCEPT !.pc = "saving"], sv.sv, NoOutcome))
     IN  \E op \in StoreOps :
           CASE op = "get" -> Apply(t, n, get_memory_data(t, n, hd, tk))
             [] op = "add_visited_location" ->
                  /\ hd.cache # None
                  /\ Apply(t, n, Eff(disk[n], file_lock[get_npc_file_lock(n)], registry[n],
                                     [hd EXCEPT !.cache = add_visited_location(
                                                            @, Position(t, task[t].calls),
                                                            RequestTime(t) + task[t].calls),
                                                !.dirty = TRUE],
                                     Done(tk), saver[t],
                                     Outcome(t, "mutated", "", None, FALSE, FALSE)))
             [] op = "save" -> Save(FALSE)
             [] op = "save_forced" -> Save(TRUE)
             [] op = "clear" ->
                  \E e \in clear_all_memory_data_file(t, n, hd, tk) : Apply(t, n, e)

InitStore ==
  /\ disk \in [NPCs -> {FileAbsent, FileEmpty, FileCorrupt}]
  /\ file_lock = [n \in NPCs |-> 0]
  /\ registry = [n \in NPCs |-> 0]
  /\ handle = [t \in Tasks |-> NoHandle]
  /\ task = [t \in Tasks |-> NoTask]
  /\ saver = [s \in Savers |-> NoSaver]
  /\ sweep = [pc |-> "idle", quiet |-> FALSE, ok |-> TRUE]
  /\ emitted = NoOutcome

NextStore ==
  \/ \E t \in Tasks : ClientStart(t)
  \/ \E t \in Tasks : ClientCall(t)
  \/ \E t \in Tasks : LoadAcquire(t)
  \/ \E t \in Tasks : ReadDone(t)
  \/ \E t \in Tasks : ClearAcquire(t)
  \/ \E s \in Tasks : SaveAcquire(s)
  \/ \E s \in Tasks : OpenDone(s)
  \/ \E s \in Tasks : WriteDone(s)

SpecStore == InitStore /\ [][NextStore]_vars

(***************************************************************************)
(* Properties.                                                             *)
(***************************************************************************)
Visits(rec) ==
  {rec.short_term_location_history[i].timestamp_visited :
     i \in 1..Len(rec.short_term_location_history)}

\* C1: decide_npc_movement always returns a MovementDecision and never
\* raises, whatever the LLM and the storage do and whatever decisions were
\* taken before for the NPC: no request ever ends with an exception that left
\* decide_npc_movement.
C1_DecideNeverRaises == emitted.kind # "raised"

\* C2: a decision whose LLM call failed (it raised, or the client returned its
\* error structure) is a fallback decision: exploration_driven is true, the
\* chosen action is the fallback-exploration text for the target, and the
\* target is the fallback planner's point, inside the scene boundary.
C2_LLMFailureTakesFallback ==
  (emitted.kind = "returned" /\ emitted.llm_failed) =>
     /\ emitted.response.path = "fallback"
     /\ emitted.response.primary_decision_drivers["exploration_driven"]
     /\ emitted.response.chosen_action_summary
          = FallbackAction(emitted.response.target_destination)
     /\ InBounds(emitted.response.target_destination, BigScene)

\* C3: no lost update.  When a save of a handle that read the stored record
\* replaces the stored record of its NPC, the record it writes contains every
\* visit the stored record holds: the visit another decision persisted while
\* this one was running is not dropped.
C3_NoLostUpdate ==
  [][\A s \in Savers :
       (/\ saver[s].pc = "opening"
        /\ saver'[s].pc = "writing"
        /\ disk[saver[s].n].st = "json"
        /\ ~handle[saver[s].h].read_failed)
       => Visits(model_load_json(disk[saver[s].n])) \subseteq
            Visits(model_load_json(saver[s].snap))]_vars

\* C4: when a save-all sweep has finished with every write successful (and no
\* request has taken a step since it started), no handle that is loaded, and
\* that has no save of its own request under way, is left dirty.
C4_SweepLeavesNothingDirty ==
  (sweep.pc = "done" /\ sweep.ok /\ sweep.quiet) =>
     \A h \in Tasks :
        (handle[h].cache # None /\ saver[h].pc = "none") => ~handle[h].dirty

C6_CleanSaveWritesNothing ==
  [][\A t \in Tasks :
       (task[t].kind = "client" /\ task[t].pc = "ready" /\ ~handle[t].dirty)
       => /\ saver'[t].pc # "none" => saver'[t].force
          /\ (emitted'.kind = "save_skipped" /\ emitted'.task = t)
               => (disk' = disk /\ handle' = handle /\ file_lock' = file_lock)]_vars

\* an unforced save of a loaded handle that is not dirty has returned
C6_Witness ==
  /\ emitted.kind = "save_skipped"
  /\ handle[emitted.task].cache # None
  /\ ~handle[emitted.task].dirty

\* C7: once a clear of an NPC has succeeded, no handle of that NPC holds a
\* cached record or is dirty.
C7_ClearLeavesNoCachedCopy ==
  emitted.kind = "cleared" =>
     \A h \in Tasks :
        handle[h].npc_id = emitted.response.npc_id =>
           handle[h].cache = None /\ ~handle[h].dirty

\* C8: a clear that runs when the NPC has no stored record succeeds; a clear
\* that succeeds leaves no stored record, an empty cache and a clean handle;
\* and a clear applied to the state a clear leaves changes nothing.
C8_ClearIdempotent ==
  [][\A t \in Tasks :
       (emitted'.kind \in {"cleared", "clear_failed"} /\ emitted'.task = t)
       => LET n == handle[t].npc_id
          IN  /\ disk[n] = FileAbsent => emitted'.kind = "cleared"
              /\ emitted'.kind = "cleared" =>
                   /\ disk'[n] = FileAbsent
                   /\ handle'[t].cache = None
                   /\ ~handle'[t].dirty
              /\ (disk[n] = FileAbsent /\ handle[t].cache = None /\ ~handle[t].dirty)
                   => (disk' = disk /\ handle' = handle /\ registry' = registry)]_vars

\* a client has cleared an NPC that had no stored record, after earlier calls
C8_Witness ==
  /\ emitted.kind = "cleared"
  /\ ~emitted.response.existed
  /\ task[emitted.task].calls >= 2
  /\ handle[emitted.task].cache = None

\* C9: a get that loads the record while the stored copy is absent, empty or
\* corrupt answers with the default record of the NPC (npc_id and name are
\* the requested id, no visits), caches it, leaves the handle clean and
\* leaves the stored copy as it was.
C9_GetSynthesizesDefault ==
  [][\A t \in Tasks :
       (/\ task[t].kind = "client"
        /\ handle[t].cache = None
        /\ handle'[t].cache # None
        /\ disk[handle[t].npc_id].st \in {"absent", "empty", "corrupt"})
       => LET n == handle[t].npc_id
          IN  /\ emitted'.kind = "viewed"
              /\ emitted'.task = t
              /\ emitted'.response = handle'[t].cache
              /\ handle'[t].cache.npc_id = n
              /\ handle'[t].cache.name = n
              /\ handle'[t].cache.short_term_location_history = << >>
              /\ ~handle'[t].dirty
              /\ disk' = disk]_vars

\* a get has answered with a default record while the stored copy is corrupt
C9_Witness ==
  /\ emitted.kind = "viewed"
  /\ disk[emitted.response.npc_id].st = "corrupt"
  /\ emitted.response.short_term_location_history = << >>
  /\ handle[emitted.task].cache = emitted.response

\* the tasks and savers inside a read or a write of the file of NPC n
InsideFileIO(n) ==
  {t \in Tasks : task[t].pc = "reading" /\ handle[t].npc_id = n}
    \cup {s \in Savers : saver[s].pc \in {"opening", "writing"} /\ saver[s].n = n}

\* C10: at most one task is inside a read or a write of the file of an NPC,
\* and it holds the file lock of the NPC (a delete runs in one step under the
\* same lock); in particular no task reads a file another one is writing.
C10_OneTaskInsideFileIO ==
  \A n \in NPCs :
     /\ Cardinality(InsideFileIO(n)) <= 1
     /\ InsideFileIO(n) \subseteq {file_lock[n]}
     /\ ~(\E t \in Tasks, s \in Savers :
            /\ task[t].pc = "reading" /\ handle[t].npc_id = n
            /\ saver[s].pc \in {"opening", "writing"} /\ saver[s].n = n)

\* a load waits for the file lock while a save is writing the file
C10_Witness ==
  \E t \in Tasks, s \in Savers :
     /\ task[t].pc = "load_wait"
     /\ saver[s].pc = "writing"
     /\ saver[s].n = handle[t].npc_id
     /\ file_lock[saver[s].n] = s

\* C11: first accesses to one NPC are serialized, so that a cold cache is
\* loaded once: two decisions for the same NPC that are in flight together
\* never hold two separately loaded records of that NPC.
C11_ColdCacheLoadedOnce ==
  \A t, u \in Tasks :
     (/\ t # u
      /\ task[t].kind = "decide" /\ task[u].kind = "decide"
      /\ handle[t].npc_id = handle[u].npc_id)
     => ~(handle[t].cache # None /\ handle[u].cache # None)

(***************************************************************************)
(* Scheduling.  The event loop runs every coroutine that is ready: a       *)
(* coroutine whose awaited lock is free, whose file I/O or whose LLM call  *)
(* (bounded by the client's timeout) has finished is resumed.  SpecFairB   *)
(* states this for the coroutines working on npc_b only; those working on  *)
(* npc_a may stay suspended for ever, wherever they are.                   *)
(***************************************************************************)
\* the steps that resume request t
TaskStep(t) ==
  \/ LoadAcquire(t) \/ ReadDone(t) \/ ClearAcquire(t) \/ LLMReturn(t)
  \/ SaveAcquire(t) \/ OpenDone(t) \/ WriteDone(t)

\* the steps of the save the sweep gathers for NPC n
SweepSaverStep(n) ==
  \/ JobStart(SweepSaver(n)) \/ SaveAcquire(SweepSaver(n))
  \/ OpenDone(SweepSaver(n)) \/ WriteDone(SweepSaver(n))

SpecFairB ==
  /\ Init /\ [][Next]_vars
  /\ \A t \in Tasks : WF_vars(handle[t].npc_id = "npc_b" /\ TaskStep(t))
  /\ WF_vars(SweepSaverStep("npc_b"))

\* the NPC a holder of a file lock is working on
NpcOf(s) == IF s \in Tasks THEN handle[s].npc_id ELSE saver[s].n

\* the holder of the file lock request t needs
LockHolder(t) == file_lock[get_npc_file_lock(handle[t].npc_id)]

\* C12: decisions for different NPCs do not block each other.  A decision in
\* flight can take a step unless the file lock it needs is held by a coroutine
\* working on the same NPC, whatever the requests for the other NPC are doing
\* (suspended in the LLM call, holding their load or file lock); and when the
\* coroutines of its own NPC are scheduled fairly it completes, even if those
\* of the other NPC never resume.
C12_OtherNpcNeverBlocks ==
  /\ [](\A t \in Tasks :
          task[t].kind = "decide" =>
             \/ ENABLED TaskStep(t)
             \/ LockHolder(t) # 0 /\ LockHolder(t) # t
                  /\ NpcOf(LockHolder(t)) = handle[t].npc_id)
  /\ \A t \in Tasks :
       (task[t].kind = "decide" /\ handle[t].npc_id = "npc_b") ~> (task[t].pc = "done")

\* a decision for npc_b is in flight while a request for npc_a holds the file
\* lock of npc_a
C12_Witness ==
  \E t, u \in Tasks :
     /\ task[t].kind = "decide" /\ handle[t].npc_id = "npc_b"
     /\ task[t].pc \in {"llm", "saving"}
     /\ handle[u].npc_id = "npc_a"
     /\ file_lock["npc_a"] = u

(***************************************************************************)
(* has_been_visited_recently on its own: a loaded handle holding any short *)
(* history, queried at any point and game time.                            *)
(***************************************************************************)
MaxHistory == 2

\* the points and the game times (seconds) of visits and queries
VisitPoints == {Position(0, 0), Position(3, 3), Position(3, 4), Position(10, 0)}
VisitTimes == {0, 50, 169, 170, 171}

\* the histories of at most MaxHistory entries
Histories ==
  UNION {[1..k -> {VisitedLocationEntry(p, t) : p \in VisitPoints, t \in VisitTimes}] :
           k \in 0..MaxHistory}

\* a handle of NPC n whose cache holds the record rec
LoadedHandle(n, rec) == [NoHandle EXCEPT !.npc_id = n, !.cache = rec]

InitRecency ==
  /\ disk = [n \in NPCs |-> FileAbsent]
  /\ file_lock = [n \in NPCs |-> 0]
  /\ registry = [n \in NPCs |-> IF n = "npc_a" THEN 1 ELSE 0]
  /\ \E hist \in Histories :
       handle = [t \in Tasks |->
                   IF t = 1
                   THEN LoadedHandle("npc_a", [NPCMemoryFile("npc_a") EXCEPT
                                                 !.short_term_location_history = hist])
                   ELSE NoHandle]
  /\ task = [t \in Tasks |-> NoTask]
  /\ saver = [s \in Savers |-> NoSaver]
  /\ sweep = [pc |-> "idle", quiet |-> FALSE, ok |-> TRUE]
  /\ emitted = NoOutcome

\* a call of has_been_visited_recently(x, y, current_game_time) on handle 1
CheckVisited ==
  /\ \E p \in VisitPoints, t \in VisitTimes :
       emitted' = Outcome(1, "checked", "",
                          [query |-> p, time |-> t,
                           value |-> has_been_visited_recently(handle[1].cache, p,
                                                               GameTime(t)).value],
                          FALSE, FALSE)
  /\ UNCHANGED <<disk, file_lock, registry, handle, task, saver, sweep>>

SpecRecency == InitRecency /\ [][CheckVisited]_vars

\* C13: the revisit check answers true iff some entry of the history lies
\* strictly within VISIT_THRESHOLD_DISTANCE of the query point and was visited
\* at a time t0 with t0 <= t < t0 + REVISIT_INTERVAL_SECONDS; in particular a
\* visit dated after the query time (negative elapsed time) does not count.
C13_RecentIffNearAndInWindow ==
  emitted.kind = "checked" =>
     LET hist == handle[1].cache.short_term_location_history
         q == emitted.response.query
         t == emitted.response.time
     IN  emitted.response.value <=>
           \E i \in 1..Len(hist) :
              /\ DistLt([x |-> hist[i].x, y |-> hist[i].y], q, VISIT_THRESHOLD_DISTANCE, 1)
              /\ hist[i].timestamp_visited <= t
              /\ t < hist[i].timestamp_visited + REVISIT_INTERVAL_SECONDS

(***************************************************************************)
(* add_visited_location on its own: every client holds a loaded handle and *)
(* records one visit after the other; its k-th visit is dated k.           *)
(***************************************************************************)
MaxVisits == 22

\* the k-th visit client t records
VisitOf(t, k) == VisitedLocationEntry(Position(k, t), k)

\* the NPC of the handle client t holds
ClientNpc(t) == IF t = 1 THEN "npc_a" ELSE "npc_b"

InitHistory ==
  /\ disk = [n \in NPCs |-> FileAbsent]
  /\ file_lock = [n \in NPCs |-> 0]
  /\ registry = [n \in NPCs |-> NpcIndex(n)]
  /\ handle = [t \in Tasks |-> LoadedHandle(ClientNpc(t), NPCMemoryFile(ClientNpc(t)))]
  /\ task = [t \in Tasks |-> [NoTask EXCEPT !.kind = "client", !.pc = "ready"]]
  /\ saver = [s \in Savers |-> NoSaver]
  /\ sweep = [pc |-> "idle", quiet |-> FALSE, ok |-> TRUE]
  /\ emitted = NoOutcome

\* a call of add_visited_location on the handle of client t (the cache is
\* loaded, so the call does not suspend)
RecordVisit(t) ==
  /\ task[t].calls < MaxVisits
  /\ LET k == task[t].calls + 1
     IN  /\ handle' = [handle EXCEPT
                         ![t].cache = add_visited_location(@, Position(k, t), k),
                         ![t].dirty = TRUE]
         /\ task' = [task EXCEPT ![t].calls = k]
  /\ emitted' = Outcome(t, "mutated", "", None, FALSE, FALSE)
  /\ UNCHANGED <<disk, file_lock, registry, saver, sweep>>

SpecHistory == InitHistory /\ [][\E t \in Tasks : RecordVisit(t)]_vars

\* C14: after any number k of recorded visits the history holds
\* min(k, MAX_LOCATIONS_IN_MEMORY) entries, and they are the most recently
\* recorded ones in the order they were recorded.
C14_HistoryKeepsMostRecent ==
  \A t \in Tasks :
     LET hist == handle[t].cache.short_term_location_history
         k == task[t].calls
     IN  /\ Len(hist) = Min2(k, MAX_LOCATIONS_IN_MEMORY)
         /\ \A i \in 1..Len(hist) : hist[i] = VisitOf(t, k - Len(hist) + i)

\* a client has recorded more visits than the history keeps: its first visits
\* are gone
C14_Witness ==
  \E t \in Tasks :
     /\ task[t].calls > MAX_LOCATIONS_IN_MEMORY
     /\ Len(handle[t].cache.short_term_location_history) = MAX_LOCATIONS_IN_MEMORY
     /\ handle[t].cache.short_term_location_history[1] # VisitOf(t, 1)

(***************************************************************************)
(* decide_npc_movement on its own: one caller takes decisions for npc_a    *)
(* one after the other on one handle, with no other request in between.    *)
(* Each decision runs from the stamping of the loaded record to the return *)
(* of the save.                                                            *)
(***************************************************************************)
MaxDecisions == 2

\* scene boundaries of a request: a large one, one narrower than twice the
\* buffer, one narrower than the buffer (0.5 wide), and one of zero area
NarrowScene == SceneBoundaryInfo(0, 1, 0, 1)
ThinScene == [min_x |-> 0, max_x |-> 1, min_y |-> 0, max_y |-> 1]
ZeroScene == SceneBoundaryInfo(0, 0, 0, 0)
Scenes == {BigScene, NarrowScene, ThinScene, ZeroScene}

NPCMovementRequestIn(n, time, pos, bounds, lms) ==
  [npc_id |-> n, time |-> time, pos |-> pos, bounds |-> bounds,
   landmarks |-> lms, entities |-> << >>]

\* variant: an accepted LLM target that was visited recently is replaced by
\* the target of the fallback planner
decide_npc_movement_avoiding_revisits(req, rec, reply) ==
  LET stamped == [rec EXCEPT !.last_known_position = req.pos,
                             !.last_known_game_time = GameTime(req.time)]
      Revisit(o) ==
        /\ ~o.raised
        /\ o.response.path = "llm"
        /\ has_been_visited_recently(rec, o.response.target_destination,
                                     GameTime(req.time)).value
  IN  UNION {IF Revisit(o) THEN DecideOutcomes(req, stamped, ReplyRaise) ELSE {o} :
               o \in DecideOutcomes(req, stamped, reply)}

\* lines 302-487 on the loaded record rec: the stamping, the prompt, the LLM
\* reply and the decision taken from it
decide_npc_movement(req, rec, reply) ==
  LET stamped == [rec EXCEPT !.last_known_position = req.pos,
                             !.last_known_game_time = GameTime(req.time)]
  IN  IF build_prompt_raises(req.landmarks)
      THEN {[raised |-> TRUE, exc |-> "AttributeError", rec |-> stamped,
             response |-> None, llm_failed |-> FALSE]}
      ELSE DecideOutcomes(req, stamped, reply)

\* save_memory_to_file run to its end with nothing in between: the file and
\* the dirty flag it leaves, and whether it failed
SaveOutcomes(file, rec) ==
  {[dk |-> model_dump_json(rec), dirty |-> FALSE, failed |-> FALSE],
   [dk |-> file, dirty |-> TRUE, failed |-> TRUE],
   [dk |-> FileEmpty, dirty |-> TRUE, failed |-> TRUE]}

InitDecide ==
  /\ disk = [n \in NPCs |-> FileAbsent]
  /\ file_lock = [n \in NPCs |-> 0]
  /\ registry = [n \in NPCs |-> IF n = "npc_a" THEN 1 ELSE 0]
  /\ handle = [t \in Tasks |->
                 IF t = 1 THEN LoadedHandle("npc_a", NPCMemoryFile("npc_a")) ELSE NoHandle]
  /\ task = [t \in Tasks |-> NoTask]
  /\ saver = [s \in Savers |-> NoSaver]
  /\ sweep = [pc |-> "idle", quiet |-> FALSE, ok |-> TRUE]
  /\ emitted = NoOutcome

\* "I need the bathroom": a decision that targets the position of WC
TextBathroomDecision ==
  Text("yaml", {"access_rules_consideration"}, "need the bathroom",
       ActionText("use the bathroom"), CoordText("kv", 5, 5), NoneStr)

\* a decision with a long chosen_action, and one that names an emotion but
\* no coordinates
TextLongDecision ==
  Text("yaml", {"emotion_driven"}, "look around", LongAction, CoordText("kv", 3, 4), "curious")
TextMoodOnly ==
  Text("yaml", {"emotion_driven"}, "feeling low", ActionText("sit down"), None, "sad")

DecideReplies ==
  Replies \cup {ReplyMessage(TextBathroomDecision), ReplyMessage(TextLongDecision),
                ReplyMessage(TextMoodOnly)}

\* one call of decide_npc_movement on handle 1; the request it served is kept
\* in task[1].req and the reply the LLM gave in task[1].response
Decide ==
  /\ task[1].calls < MaxDecisions
  /\ \E bounds \in Scenes, lms \in LandmarkLists, reply \in DecideReplies :
       LET req == NPCMovementRequestIn("npc_a", RequestTime(task[1].calls + 1),
                                       Position(0, 0), bounds, lms)
       IN  /\ task' = [task EXCEPT ![1].req = req, ![1].calls = @ + 1,
                                   ![1].response = [llm_reply |-> reply]]
           /\ \E o \in decide_npc_movement(req, handle[1].cache, reply) :
                IF o.raised
                THEN /\ handle' = [handle EXCEPT ![1].cache = o.rec]
                     /\ emitted' = Outcome(1, "raised", o.exc, None, o.llm_failed, FALSE)
                     /\ UNCHANGED disk
                ELSE \E sv \in SaveOutcomes(disk["npc_a"], o.rec) :
                       /\ handle' = [handle EXCEPT ![1].cache = o.rec, ![1].dirty = sv.dirty]
                       /\ disk' = [disk EXCEPT !["npc_a"] = sv.dk]
                       /\ emitted' = Outcome(1, "returned", "", o.response, o.llm_failed,
                                             sv.failed)
  /\ UNCHANGED <<file_lock, registry, saver, sweep>>

SpecDecide == InitDecide /\ [][Decide]_vars

\* C15: the target of every returned decision lies inside the scene boundary
\* of its request, on every path (accepted LLM target, redirect, fallback
\* candidate, emergency point) and for every boundary with max >= min.
C15_TargetInsideBoundary ==
  emitted.kind = "returned" =>
     InBounds(emitted.response.target_destination, task[1].req.bounds)

(***************************************************************************)
(* clamp_position_to_bounds on its own: any point, any boundary with       *)
(* max >= min and any buffer >= 0 (all doubled, so the buffer 1 is 0.5),   *)
(* clamped once and then once more.                                        *)
(***************************************************************************)
MaxCoord == 3

ClampPoints == {[x |-> x, y |-> y] : x \in (0 - 2)..(MaxCoord + 2), y \in {0 - 2, 1, MaxCoord + 2}}
ClampBounds ==
  {[min_x |-> a, max_x |-> b, min_y |-> c[1], max_y |-> c[2]] :
     a \in 0..MaxCoord, b \in 0..MaxCoord, c \in {<<0, 0>>, <<0, MaxCoord>>, <<1, 2>>}}
ClampBuffers == {0, 1, 2, 3, MaxCoord + 2}

\* the arguments and the result of a call
ClampCall(original, p, bounds, buffer, result) ==
  [original |-> original, p |-> p, bounds |-> bounds, buffer |-> buffer, result |-> result]

InitClamp ==
  /\ disk = [n \in NPCs |-> FileAbsent]
  /\ file_lock = [n \in NPCs |-> 0]
  /\ registry = [n \in NPCs |-> 0]
  /\ handle = [t \in Tasks |-> NoHandle]
  /\ task = [t \in Tasks |-> NoTask]
  /\ saver = [s \in Savers |-> NoSaver]
  /\ sweep = [pc |-> "idle", quiet |-> FALSE, ok |-> TRUE]
  /\ \E p \in ClampPoints, b \in ClampBounds, buffer \in ClampBuffers :
       /\ b.min_x <= b.max_x
       /\ emitted = Outcome(0, "clamp_input", "", ClampCall(p, p, b, buffer, None),
                            FALSE, FALSE)

\* clamp_position_to_bounds(x, y, bounds, buffer)
Clamp ==
  /\ emitted.kind = "clamp_input"
  /\ LET c == emitted.response
     IN  emitted' = Outcome(0, "clamped", "",
                            [c EXCEPT !.result =
                               clamp_position_to_bounds(c.p, c.bounds, c.buffer)],
                            FALSE, FALSE)
  /\ UNCHANGED <<disk, file_lock, registry, handle, task, saver, sweep>>

\* the result is clamped again, with the same boundary and buffer
ClampAgain ==
  /\ emitted.kind = "clamped"
  /\ LET c == emitted.response
     IN  emitted' = Outcome(0, "clamped_twice", "",
                            [c EXCEPT !.p = c.result,
                                      !.result = clamp_position_to_bounds(
                                                   c.result, c.bounds, c.buffer)],
                            FALSE, FALSE)
  /\ UNCHANGED <<disk, file_lock, registry, handle, task, saver, sweep>>

SpecClamp == InitClamp /\ [][Clamp \/ ClampAgain]_vars

\* C16: for every point, every boundary with max >= min and every buffer >= 0
\* the clamped point lies inside the boundary, also when the buffer exceeds
\* half of the span or the whole span.
C16_ClampedInsideBoundary ==
  emitted.kind \in {"clamped", "clamped_twice"} =>
     InBounds(emitted.response.result, emitted.response.bounds)

\* C17: clamping is idempotent: clamping a clamped point again, with the same
\* boundary and buffer, returns it unchanged.
C17_ClampIdempotent ==
  emitted.kind = "clamped_twice" => emitted.response.result = emitted.response.p

\* a point that the first clamp moved has been clamped again, for a boundary
\* narrower than the buffer
C17_Witness ==
  /\ emitted.kind = "clamped_twice"
  /\ emitted.response.p # emitted.response.original
  /\ emitted.response.bounds.max_x - emitted.response.bounds.min_x < emitted.response.buffer

\* the landmark the target of an LLM reply is associated with (lines 373-388)
TargetedLandmark(req, reply) ==
  LET llm == LLMPhase(reply)
      byPos == LandmarkByPos(llm.llm_chosen_target_pos, req.landmarks)
  IN  IF llm.llm_chosen_target_pos = None THEN None
      ELSE IF byPos = None /\ MentionsBathroom(llm.parsed.chosen_action)
           THEN LandmarkByName(req.landmarks)
           ELSE byPos

\* C18: when the LLM's target is associated with a bathroom that is occupied
\* by another NPC, the decision is returned; its target is the nearest
\* entrance of the landmark, kept inside the boundary, and its action the
\* "waiting near" text when the landmark defines an entrance; when it defines
\* none, the clamped LLM target and the LLM's action text are kept.
C18_OccupiedBathroomRedirect ==
  LET req == task[1].req
      reply == task[1].response.llm_reply
      lm == TargetedLandmark(req, reply)
      llm == LLMPhase(reply)
      entrances == IF HasAttr(lm, "entrance_positions") THEN lm.entrance_positions ELSE << >>
  IN  (/\ emitted.kind \in {"returned", "raised"}
       /\ lm # None
       /\ lm.landmark_type_tag = "bathroom"
       /\ OccupiedByOther(lm, req.npc_id))
      => /\ emitted.kind = "returned"
         /\ IF entrances # << >>
            THEN /\ emitted.response.target_destination
                      = clamp_position_to_bounds(ClosestTo(req.pos, entrances), req.bounds,
                                                 SCENE_BOUNDARY_BUFFER)
                 /\ emitted.response.chosen_action_summary = WaitAction(lm.landmark_name)
            ELSE /\ emitted.response.target_destination
                      = clamp_position_to_bounds(llm.llm_chosen_target_pos, req.bounds,
                                                 2 * SCENE_BOUNDARY_BUFFER)
                 /\ emitted.response.chosen_action_summary = llm.parsed.chosen_action

(***************************************************************************)
(* _find_fallback_exploration_target on its own: called for npc_a at       *)
(* (0, 0) with any of the landmark lists, boundaries, entity lists and     *)
(* histories below.                                                        *)
(***************************************************************************)
\* a kitchen in range of (0, 0), and the occupied bathroom
Kitchen == LandmarkContextInfo("Kitchen", Position(20, 0), "kitchen", NoneStr, {})
\* the bedroom of npc_b, without status notes
BedroomB == LandmarkContextInfo("Bedroom_B", Position(0, 20), "bedroom", "npc_b", {})
FallbackLandmarkLists == {<< >>, <<WC>>, <<Kitchen, WC>>, <<BedroomB>>}
\* nearby_entities: nobody, or somebody standing on a random point
FallbackEntities == {<< >>, <<Position(7, 0)>>}
FallbackHistories == {h \in Histories : Len(h) <= 1}

InitFallback ==
  /\ disk = [n \in NPCs |-> FileAbsent]
  /\ file_lock = [n \in NPCs |-> 0]
  /\ registry = [n \in NPCs |-> IF n = "npc_a" THEN 1 ELSE 0]
  /\ \E hist \in FallbackHistories :
       handle = [t \in Tasks |->
                   IF t = 1
                   THEN LoadedHandle("npc_a", [NPCMemoryFile("npc_a") EXCEPT
                                                 !.short_term_location_history = hist])
                   ELSE NoHandle]
  /\ \E bounds \in Scenes, lms \in FallbackLandmarkLists, entities \in FallbackEntities :
       task = [t \in Tasks |->
                 IF t = 1
                 THEN [NoTask EXCEPT
                         !.req = [NPCMovementRequestIn("npc_a", RequestTime(1), Position(0, 0),
                                                       bounds, lms)
                                    EXCEPT !.entities = entities]]
                 ELSE NoTask]
  /\ saver = [s \in Savers |-> NoSaver]
  /\ sweep = [pc |-> "idle", quiet |-> FALSE, ok |-> TRUE]
  /\ emitted = NoOutcome

\* one call of the planner with the arguments of task[1].req; line 225 hands
\* current_game_time.current_timestamp, a datetime, to the revisit check
Fallback ==
  /\ emitted.kind = "none"
  /\ LET req == task[1].req
     IN  \E f \in find_fallback_exploration_target(req.npc_id, req.pos, req.landmarks,
                    req.bounds, handle[1].cache, datetime(req.time), req.entities) :
           emitted' = Outcome(1, IF f.raised THEN "raised" ELSE "planned",
                              IF f.raised THEN f.src ELSE "",
                              [p |-> f.p, src |-> f.src], FALSE, FALSE)
  /\ UNCHANGED <<disk, file_lock, registry, handle, task, saver, sweep>>

SpecFallback == InitFallback /\ [][Fallback]_vars

\* C19: the fallback planner returns a point and never raises, for every
\* landmark list, boundary, entity list and visit history.
C19_FallbackAlwaysReturnsPoint ==
  emitted.kind \in {"planned", "raised"} =>
     /\ emitted.kind = "planned"
     /\ emitted.response.p # None

ParserTexts ==
  {Text("empty", {}, NoneStr, None, None, NoneStr)}
  \cup {Text(form, flags, reasoning, action, coords, emotion) :
          form \in {"yaml", "other", "yaml_value_error"},
          flags \in SUBSET {"schedule_driven", "exploration_driven"},
          reasoning \in {NoneStr, "go to the sofa"},
          action \in {None, ActionText("walk to the sofa")},
          coords \in {None, CoordText("kv", 3, 4), CoordText("junk", 0, 0)},
          emotion \in {NoneStr, "happy"}}

\* lines 103-128: the try block around yaml.safe_load catches yaml.YAMLError
\* only, so any other exception of the loader leaves the parser
parser_raises(text) == text.form = "yaml_value_error"

InitParser ==
  /\ disk = [n \in NPCs |-> FileAbsent]
  /\ file_lock = [n \in NPCs |-> 0]
  /\ registry = [n \in NPCs |-> 0]
  /\ handle = [t \in Tasks |-> NoHandle]
  /\ task = [t \in Tasks |-> NoTask]
  /\ saver = [s \in Savers |-> NoSaver]
  /\ sweep = [pc |-> "idle", quiet |-> FALSE, ok |-> TRUE]
  /\ \E text \in ParserTexts :
       emitted = Outcome(0, "parser_input", "", [text |-> text, result |-> None],
                         FALSE, FALSE)

\* a call of the parser on the text
Parse ==
  /\ emitted.kind = "parser_input"
  /\ LET text == emitted.response.text
     IN  emitted' = IF parser_raises(text)
                    THEN Outcome(0, "raised", "ValueError", emitted.response, FALSE, FALSE)
                    ELSE Outcome(0, "parsed", "",
                                 [text |-> text,
                                  result |-> parse_structured_llm_movement_output(text)],
                                 FALSE, FALSE)
  /\ UNCHANGED <<disk, file_lock, registry, handle, task, saver, sweep>>

SpecParser == InitParser /\ [][Parse]_vars

\* C21: the parser is total.  For every text it returns, without raising, a
\* result with the five keys; for an empty text and for a text in which
\* nothing can be found the result is the default (all flags false, the
\* placeholder reasoning, no coordinates, emotion tag no_change).
C21_ParserTotal ==
  emitted.kind \in {"parsed", "raised"} =>
     /\ emitted.kind = "parsed"
     /\ DOMAIN emitted.response.result = DOMAIN DefaultParsedDecision
     /\ LET text == emitted.response.text
        IN  (\/ text.form = "empty"
             \/ /\ text.flags = {} /\ text.reasoning = NoneStr /\ text.chosen_action = None
                /\ text.target_coordinates = None /\ text.resulting_emotion_tag = NoneStr)
            => emitted.response.result = DefaultParsedDecision

\* C22: when a decision returns, the newest entry of the history of its
\* handle is its final target dated with the game time of the request; and
\* when its save has written the file, the stored record holds that entry as
\* its newest one and has the position and the game time of the request as
\* last-known values.
C22_DecisionRecordsVisit ==
  [][\A s \in Tasks :
       (task[s].kind = "decide" /\ emitted'.kind = "returned" /\ emitted'.task = s)
       => LET req == task[s].req
              hist == handle[s].cache.short_term_location_history
              visit == VisitedLocationEntry(emitted'.response.target_destination, req.time)
              stored == model_load_json(disk'[req.npc_id])
          IN  /\ hist # << >>
              /\ hist[Len(hist)] = visit
              /\ ~emitted'.save_failed =>
                   /\ stored.short_term_location_history # << >>
                   /\ stored.short_term_location_history[
                        Len(stored.short_term_location_history)] = visit
                   /\ stored.last_known_position = req.pos
                   /\ stored.last_known_game_time = GameTime(req.time)]_vars

\* a decision has returned after its save wrote a record that
\* already held an earlier visit
C22_Witness ==
  /\ emitted.kind = "returned"
  /\ ~emitted.save_failed
  /\ emitted.response.path = "llm"
  /\ disk[emitted.response.npc_id].st = "json"
  /\ Len(model_load_json(disk[emitted.response.npc_id]).short_term_location_history) = 2

\* C23: a landmark the fallback planner returns as its target passes the
\* accessibility rule table: it is no bathroom that a status note marks as
\* occupied by another NPC, and if it is a bedroom owned by another NPC, a
\* status note says that the owner is present.
C23_CandidatesPassAccessRules ==
  (emitted.kind = "planned" /\ emitted.response.src = "candidate") =>
     LET req == task[1].req
         buf == 2 * SCENE_BOUNDARY_BUFFER
     IN  \A i \in 1..Len(req.landmarks) :
            LET lm == req.landmarks[i]
            IN  clamp_position_to_bounds(lm.position, req.bounds, buf) = emitted.response.p
                => /\ lm.landmark_type_tag = "bathroom" => ~OccupiedByOther(lm, req.npc_id)
                   /\ (/\ lm.landmark_type_tag = "bedroom"
                       /\ lm.owner_id # NoneStr
                       /\ lm.owner_id # req.npc_id)
                      => \E n \in lm.current_status_notes : n.tag = "owner_presence_present"

\* C24: a decision that does not fail before its emotion step changes the
\* emotional state iff the parsed resulting_emotion_tag is no no-change
\* sentinel and differs from the current primary emotion.  It then returns,
\* the cached state has the new primary emotion, the prior intensity and a
\* reason made of the chosen action text, and the snapshot of the response is
\* that state; otherwise the cached state is the prior one, and so is the
\* snapshot.
C24_EmotionChangesIffConcreteTag ==
  [][(task'[1].calls # task[1].calls /\ emitted'.exc # "AttributeError")
     => LET prior == handle[1].cache.current_emotional_state
            now == handle'[1].cache.current_emotional_state
            parsed == LLMPhase(task'[1].response.llm_reply).parsed
            tag == parsed.resulting_emotion_tag
        IN  IF tag \notin NoChangeTags /\ tag # prior.primary_emotion
            THEN /\ emitted'.kind = "returned"
                 /\ now.primary_emotion = tag
                 /\ now.intensity = prior.intensity
                 /\ now.reason_for_last_change.action
                      \in {parsed.chosen_action, emitted'.response.chosen_action_summary}
                 /\ emitted'.response.updated_emotional_state_snapshot = now
            ELSE /\ now = prior
                 /\ emitted'.kind = "returned"
                      => emitted'.response.updated_emotional_state_snapshot = prior]_vars

\* C25: when a returned decision carries the LLM's target moved by the
\* clamping, its reasoning text or its chosen action summary is not just the
\* text the LLM gave: one of them carries the note about the clamping.
C25_ResponseNotesClamping ==
  LET llm == LLMPhase(task[1].response.llm_reply)
  IN  (/\ emitted.kind = "returned"
       /\ emitted.response.path = "llm"
       /\ emitted.response.target_destination # llm.llm_chosen_target_pos)
      => \/ emitted.response.llm_full_reasoning_text # llm.parsed.reasoning
         \/ emitted.response.chosen_action_summary # llm.parsed.chosen_action

\* C26: when the LLM output yields coordinates, the result of the decision
\* does not depend on the visit history: for the same request and the same
\* reply, the record with any other short-term history yields the same target
\* (or the same exception) as the decision just taken.
C26_TargetIndependentOfHistory ==
  [][(/\ task'[1].calls # task[1].calls
      /\ LLMPhase(task'[1].response.llm_reply).llm_chosen_target_pos # None)
     => LET req == task'[1].req
            reply == task'[1].response.llm_reply
            Result(o) == IF o.raised THEN [exc |-> o.exc]
                         ELSE [target |-> o.response.target_destination]
            Results(rec) == {Result(o) : o \in decide_npc_movement(req, rec, reply)}
            taken == IF emitted'.kind = "raised" THEN [exc |-> emitted'.exc]
                     ELSE [target |-> emitted'.response.target_destination]
        IN  \A h \in FallbackHistories :
               Results([handle[1].cache EXCEPT !.short_term_location_history = h])
                 = {taken}]_vars

\* a returned decision goes again to the point of the decision before it,
\* 100 seconds later
C26_Witness ==
  /\ emitted.kind = "returned"
  /\ emitted.response.path = "llm"
  /\ LET hist == handle[1].cache.short_term_location_history
     IN  /\ Len(hist) = 2
         /\ hist[1].x = hist[2].x /\ hist[1].y = hist[2].y
         /\ hist[2].timestamp_visited - hist[1].timestamp_visited < REVISIT_INTERVAL_SECONDS
         /\ emitted.response.target_destination = Position(3, 4)

\* C27: on an axis whose span is at least twice the buffer, the clamped
\* coordinate is the input when it lies in [min + buffer, max - buffer] and
\* otherwise the nearer end of that interval; the boundary 0..10 with buffer
\* 0.5 maps (15, -3) to (9.5, 0.5).
C27_ClampPullsInward ==
  LET Expected(v, lo, hi, buf) ==
        IF v < lo + buf THEN lo + buf ELSE IF v > hi - buf THEN hi - buf ELSE v
  IN  /\ emitted.kind \in {"clamped", "clamped_twice"} =>
           LET c == emitted.response
           IN  /\ c.bounds.max_x - c.bounds.min_x >= 2 * c.buffer
                    => c.result.x = Expected(c.p.x, c.bounds.min_x, c.bounds.max_x, c.buffer)
               /\ c.bounds.max_y - c.bounds.min_y >= 2 * c.buffer
                    => c.result.y = Expected(c.p.y, c.bounds.min_y, c.bounds.max_y, c.buffer)
      /\ clamp_position_to_bounds(Position(15, 0 - 3), SceneBoundaryInfo(0, 10, 0, 10),
                                  SCENE_BOUNDARY_BUFFER)
           = [x |-> 19, y |-> 1]

\* a point beyond the upper end on x and below the lower end on y has been
\* clamped, for a boundary at least twice as wide as the positive buffer
C27_Witness ==
  /\ emitted.kind = "clamped"
  /\ LET c == emitted.response
     IN  /\ c.buffer > 0
         /\ c.bounds.max_x - c.bounds.min_x >= 2 * c.buffer
         /\ c.bounds.max_y - c.bounds.min_y >= 2 * c.buffer
         /\ c.p.x > c.bounds.max_x
         /\ c.p.y < c.bounds.min_y
         /\ c.result = [x |-> c.bounds.max_x - c.buffer, y |-> c.bounds.min_y + c.buffer]

(***************************************************************************)
(* The store API with its clients and the save-all sweep (the admin        *)
(* endpoint trigger-save-all, or the shutdown hook) running beside them.   *)
(***************************************************************************)
NextStoreSweep ==
  \/ \E t \in Tasks : ClientStart(t)
  \/ \E t \in Tasks : ClientCall(t)
  \/ \E t \in Tasks : LoadAcquire(t)
  \/ \E t \in Tasks : ReadDone(t)
  \/ \E t \in Tasks : ClearAcquire(t)
  \/ \E s \in Savers : SaveAcquire(s)
  \/ \E s \in Savers : OpenDone(s)
  \/ \E s \in Savers : WriteDone(s)
  \/ SweepStart
  \/ \E s \in SweepSavers : JobStart(s)
  \/ SweepFinish

SpecStoreSweep == Init /\ [][NextStoreSweep]_vars

\* C28: when a save of a handle completes its write, the handle is still
\* dirty or the record just written holds every change the mutators made to
\* the cache of the handle, those made while the write was suspended
\* included.
C28_DirtyFlagLosesNoMutation ==
  [][\A s \in Savers :
       (/\ saver[s].pc = "writing"
        /\ saver'[s].pc # "writing"
        /\ disk'[saver[s].n] = saver[s].snap
        /\ handle[saver[s].h].cache # None)
       => \/ handle'[saver[s].h].dirty
          \/ model_load_json(disk'[saver[s].n]).short_term_location_history
               = handle[saver[s].h].cache.short_term_location_history]_vars

(***************************************************************************)
(* Fair scheduling: while some coroutine can be resumed (its awaited lock  *)
(* is free, its file I/O or LLM call has ended) the event loop resumes     *)
(* one.  Arrivals of requests and of the sweep are not forced.             *)
(***************************************************************************)
Resume ==
  \/ \E t \in Tasks : TaskStep(t)
  \/ \E n \in NPCs : SweepSaverStep(n)
  \/ SweepFinish

SpecFair == Init /\ [][Next]_vars /\ WF_vars(Resume)

\* no request is in flight and no sweep is running
Quiescent ==
  /\ \A t \in Tasks : task[t].pc \in {"idle", "done"}
  /\ sweep.pc # "running"

\* C29: the locks never deadlock.  The coroutine holding a file lock waits
\* for no lock; a request waits for the file lock of its load only with its
\* load lock held, never the other way round; and every request in flight
\* (get of the view, get and save of a decision, clear) and every running
\* sweep completes: from some point on, once the arrivals have ended,
\* nothing is in flight any more.
C29_LocksNeverDeadlock ==
  /\ [](/\ \A n \in NPCs :
            LET s == file_lock[get_npc_file_lock(n)]
            IN  s # 0 =>
                  /\ saver[s].pc \notin {"todo", "save_wait"}
                  /\ s \in Tasks => task[s].pc \in {"reading", "saving"}
        /\ \A t \in Tasks : task[t].pc \in {"load_wait", "reading"} <=> handle[t].load_lock)
  /\ <>[]Quiescent

\* a request waits for the file lock of its load, with its load lock held,
\* while a save gathered by the running sweep holds that file lock
C29_Witness ==
  \E t \in Tasks :
     /\ task[t].pc = "load_wait"
     /\ handle[t].load_lock
     /\ sweep.pc = "running"
     /\ LockHolder(t) \in SweepSavers

\* C30: reading has no durable effect.  A step of a get (its call, the grant
\* of the file lock, the end of the read) leaves every file as it is and
\* never sets the dirty flag of its handle; a file that does not exist comes
\* into being only by the open of a save that was started on a dirty handle
\* or forced; and a save on a handle whose cache is empty, forced or not, is
\* skipped and writes nothing.
C30_ReadingHasNoDurableEffect ==
  [][\A t \in Tasks :
       /\ (/\ task'[t] # task[t]
           /\ \/ task'[t].pc \in {"load_wait", "reading"}
              \/ emitted'.kind = "viewed" /\ emitted'.task = t)
          => /\ disk' = disk
             /\ handle'[t].dirty => handle[t].dirty
       /\ \A n \in NPCs :
            (disk[n].st = "absent" /\ disk'[n].st # "absent")
            => \E s \in Savers :
                  /\ saver[s].pc = "opening" /\ saver[s].n = n
                  /\ handle[saver[s].h].dirty \/ saver[s].force
       /\ (task[t].pc = "ready" /\ handle[t].cache = None /\ task'[t] # task[t])
          => /\ task'[t].pc # "saving"
             /\ saver'[t].pc \notin {"save_wait", "opening", "writing"}
             /\ emitted'.kind = "save_skipped" => disk' = disk]_vars

\* a get has synthesized the default record of an NPC without a file: the
\* record is in the cache, the handle is clean and there is still no file
C30_Witness ==
  /\ emitted.kind = "viewed"
  /\ emitted.task \in Tasks
  /\ LET hd == handle[emitted.task]
     IN  /\ hd.cache = NPCMemoryFile(hd.npc_id)
         /\ ~hd.dirty
         /\ disk[hd.npc_id].st = "absent"

====
